---- MODULE Spec2Model ----
(***************************************************************************)
(* State-machine model of tweetcatcher.py: the stream receive loop         *)
(* (run_websocket / on_websocket_message / process_token), the dedup       *)
(* ledger (tweet_blacklist + tweet_blacklist.txt), the allow-list and the  *)
(* asynchronous notification hand-off (send_tweet).                        *)
(*                                                                         *)
(* Strings are sequences of one-character strings, so that split, strip,   *)
(* lower and the character filter are computed as the code computes them.  *)
(***************************************************************************)
EXTENDS Integers, Sequences, FiniteSets, TLC

(* ------------------------------ bounds --------------------------------- *)
\* process runs (main() executions) in one behaviour
MaxRuns == 2
\* hand-offs to the sink (run_coroutine_threadsafe calls) in one behaviour
MaxDispatch == 2

(* ------------------------- string primitives --------------------------- *)
None == <<"<None>">>
NoFile == <<"<ENOENT>">>

LowerLetters == {"a","b","c","d","e","f","g","h","i","j","k","l","m",
                 "n","o","p","q","r","s","t","u","v","w","x","y","z"}
UpperToLower == [c \in {"A","B","C"} |->
                   CASE c = "A" -> "a" [] c = "B" -> "b" [] c = "C" -> "c"]
Digits == {"0","1","2","3","4","5","6","7","8","9"}
Whitespace == {" ", "\t", "\n", "\r"}

\* str.isalnum() on one character
IsAlnum(c) == c \in LowerLetters \/ c \in DOMAIN UpperToLower \/ c \in Digits

\* str.lower()
Lower(s) == [i \in 1..Len(s) |->
               IF s[i] \in DOMAIN UpperToLower THEN UpperToLower[s[i]] ELSE s[i]]

\* str.strip()
Strip(s) ==
  LET keep == {i \in 1..Len(s) : s[i] \notin Whitespace}
      lo == CHOOSE i \in keep : \A j \in keep : i <= j
      hi == CHOOSE i \in keep : \A j \in keep : j <= i
  IN IF keep = {} THEN <<>> ELSE SubSeq(s, lo, hi)

\* str.startswith(p)
StartsWith(s, p) == Len(p) <= Len(s) /\ SubSeq(s, 1, Len(p)) = p

\* str.find(sub) + 1: position of the first occurrence, 0 when there is none
Find(s, sub) ==
  LET hits == {i \in 1..(Len(s) - Len(sub) + 1) : SubSeq(s, i, i + Len(sub) - 1) = sub}
  IN IF hits = {} THEN 0 ELSE CHOOSE i \in hits : \A j \in hits : i <= j

\* sub in s
Contains(s, sub) == Find(s, sub) # 0

\* str.split(sep)
RECURSIVE Split(_, _)
Split(s, sep) ==
  LET i == Find(s, sep)
  IN IF i = 0 THEN <<s>>
     ELSE <<SubSeq(s, 1, i - 1)>> \o Split(SubSeq(s, i + Len(sep), Len(s)), sep)

\* the lines a text file yields when iterated (each with its "\n", but the last)
RECURSIVE FileLines(_)
FileLines(data) ==
  LET i == Find(data, <<"\n">>)
  IN IF data = <<>> THEN <<>>
     ELSE IF i = 0 THEN <<data>>
     ELSE <<SubSeq(data, 1, i)>> \o FileLines(SubSeq(data, i + 1, Len(data)))

\* a value is falsy in `not x`: None or the empty string
Falsy(x) == x = None \/ x = <<>>

(* --------------------------- string literals --------------------------- *)
XCom == <<"x",".","c","o","m">>
TwitterCom == <<"t","w","i","t","t","e","r",".","c","o","m">>
StatusMarker == <<"/","s","t","a","t","u","s","/">>
NonDisponible == <<"N","o","n"," ","d","i","s","p","o","n","i","b","l","e">>

(* ------------------------------ parsers -------------------------------- *)
\* extract_account_name: None for a non-string (the TypeError is caught)
extract_account_name(twitter_link) ==
  IF twitter_link = None THEN None
  ELSE
    LET l1 == IF Contains(twitter_link, <<"#">>)
              THEN Split(twitter_link, <<"#">>)[1] ELSE twitter_link
        l2 == IF Contains(l1, StatusMarker) THEN Split(l1, StatusMarker)[1] ELSE l1
        parts == Split(l2, <<"/">>)
        hits == {i \in 1..Len(parts) : parts[i] \in {XCom, TwitterCom} /\ i + 1 <= Len(parts)}
        i0 == CHOOSE i \in hits : \A j \in hits : i <= j
    IN IF hits = {} THEN None
       ELSE SelectSeq(Lower(parts[i0 + 1]), LAMBDA c : IsAlnum(c) \/ c = "_")

\* extract_tweet_id: None for a non-string or a link without /status/
extract_tweet_id(twitter_link) ==
  IF twitter_link = None THEN None
  ELSE IF Contains(twitter_link, StatusMarker)
       THEN Split(Split(Split(twitter_link, StatusMarker)[2], <<"#">>)[1], <<"?">>)[1]
       ELSE None

\* mutant: the key built account first
TweetKeySwapped(tweet_id, account_name) == account_name \o <<"|">> \o tweet_id

\* f"{tweet_id}|{account_name}"
TweetKey(tweet_id, account_name) == tweet_id \o <<"|">> \o account_name

(* ------------------------------- files --------------------------------- *)
\* load_tweet_blacklist: stripped non-empty lines that do not start with '#'
load_tweet_blacklist(file) ==
  IF file = NoFile THEN <<>>
  ELSE LET lines == FileLines(file)
           kept == SelectSeq(lines, LAMBDA l : Strip(l) # <<>> /\ ~StartsWith(l, <<"#">>))
       IN [i \in 1..Len(kept) |-> Strip(kept[i])]

\* load_allowed_accounts: stripped, lower-cased non-empty lines
load_allowed_accounts(file) ==
  IF file = NoFile THEN <<>>
  ELSE LET lines == FileLines(file)
           kept == SelectSeq(lines, LAMBDA l : Strip(l) # <<>>)
       IN [i \in 1..Len(kept) |-> Lower(Strip(kept[i]))]

\* open(TWEET_BLACKLIST_FILE, 'a') + write: the file after a successful append
AppendRecord(file, tweet_id, account_name) ==
  (IF file = NoFile THEN <<>> ELSE file) \o TweetKey(tweet_id, account_name) \o <<"\n">>

\* mutant: the in-memory list is replaced by the new key instead of extended
save_to_blacklist_Overwrite(file, blacklist, tweet_id, account_name, io_ok) ==
  IF io_ok
  THEN [file |-> AppendRecord(file, tweet_id, account_name),
        blacklist |-> <<tweet_id \o <<"|">> \o account_name>>]
  ELSE [file |-> file, blacklist |-> blacklist]

\* mutant: the key is appended to the in-memory list before the file is written
save_to_blacklist_MemoryFirst(file, blacklist, tweet_id, account_name, io_ok) ==
  IF io_ok
  THEN [file |-> AppendRecord(file, tweet_id, account_name),
        blacklist |-> Append(blacklist, tweet_id \o <<"|">> \o account_name)]
  ELSE [file |-> file, blacklist |-> Append(blacklist, tweet_id \o <<"|">> \o account_name)]

\* save_to_blacklist: the (file, in-memory list) pair it leaves.  io_ok = FALSE
\* is open()/write() raising: the except branch logs and returns, nothing appended.
save_to_blacklist(file, blacklist, tweet_id, account_name, io_ok) ==
  IF io_ok
  THEN [file |-> AppendRecord(file, tweet_id, account_name),
        blacklist |-> Append(blacklist, TweetKey(tweet_id, account_name))]
  ELSE [file |-> file, blacklist |-> blacklist]

\* x in list
InList(x, list) == \E i \in 1..Len(list) : list[i] = x

(* ------------------------------ resolver ------------------------------- *)
\* dict.get(k, default)
Get(d, k, default) == IF k \in DOMAIN d THEN d[k] ELSE default

Unavailable == [twitter |-> NonDisponible, website |-> NonDisponible, telegram |-> NonDisponible]

\* get_token_links: resp is what requests.get(uri) does: resp.kind is "ok" (a
\* response), "timeout" (requests.Timeout) or "error" (any other exception,
\* response.json() failing included); resp.status and resp.metadata the response.
get_token_links(uri, resp) ==
  IF uri = "" THEN Unavailable
  ELSE IF resp.kind # "ok" THEN Unavailable
  ELSE IF resp.status # 200 THEN Unavailable
  ELSE
    LET metadata == resp.metadata
        nested == "properties" \in DOMAIN metadata /\ "links" \in DOMAIN metadata.properties
        links_data == metadata.properties.links
        links1 == IF nested
                  THEN [twitter  |-> Get(links_data, "twitter", Unavailable.twitter),
                        website  |-> Get(links_data, "website", Unavailable.website),
                        telegram |-> Get(links_data, "telegram", Unavailable.telegram)]
                  ELSE Unavailable
    IN [twitter  |-> Get(metadata, "twitter", Get(metadata, "twitter_link", links1.twitter)),
        website  |-> Get(metadata, "website", Get(metadata, "website_link", links1.website)),
        telegram |-> Get(metadata, "telegram", Get(metadata, "telegram_link", links1.telegram))]

\* mutant: only requests.Timeout is caught
CaughtTimeoutOnly(kind) == kind = "timeout"

\* the except clauses of get_token_links: requests.Timeout (line 134) and any
\* other Exception (line 136)
Caught(kind) == kind \in {"timeout", "error"}

\* one call of get_token_links as its caller sees it: whether an exception
\* leaves the function, how many fetches it issued (none when `not uri`), and
\* the bundle it returns
get_token_links_call(uri, resp) ==
  [raised |-> uri # "" /\ resp.kind # "ok" /\ ~Caught(resp.kind),
   fetches |-> IF uri = "" THEN 0 ELSE 1,
   links |-> get_token_links(uri, resp)]

(* ----------------------------- classifier ------------------------------ *)
\* a decoded JSON value that is no object
NotADict == [nondict |-> TRUE]

\* mutant: the event-tagged envelope is passed whole, not its data object
ClassifyEnvelopeWhole(msg) ==
  IF ~msg.decodes THEN [kind |-> "error"]
  ELSE LET data == msg.data IN
    IF data = NotADict THEN [kind |-> "error"]
    ELSE IF "method" \in DOMAIN data /\ data.method = "newToken"
      THEN IF "params" \in DOMAIN data
           THEN [kind |-> "token", token_data |-> data.params] ELSE [kind |-> "error"]
    ELSE IF "type" \in DOMAIN data /\ data.type = "newToken"
      THEN [kind |-> "token", token_data |-> data]
    ELSE IF "event" \in DOMAIN data /\ data.event = "token_created"
      THEN [kind |-> "token", token_data |-> data]
    ELSE IF "mint" \in DOMAIN data /\ "txType" \in DOMAIN data /\ data.txType = "create"
      THEN [kind |-> "token", token_data |-> data]
    ELSE [kind |-> "dropped"]

\* on_websocket_message, lines 241-251: which payload, if any, goes to
\* process_token.  "error" is an exception caught at line 253.
Classify(msg) ==
  IF ~msg.decodes THEN [kind |-> "error"]
  ELSE LET data == msg.data IN
    IF data = NotADict THEN [kind |-> "error"]
    ELSE IF "method" \in DOMAIN data /\ data.method = "newToken"
      THEN IF "params" \in DOMAIN data
           THEN [kind |-> "token", token_data |-> data.params] ELSE [kind |-> "error"]
    ELSE IF "type" \in DOMAIN data /\ data.type = "newToken"
      THEN [kind |-> "token", token_data |-> data]
    ELSE IF "event" \in DOMAIN data /\ data.event = "token_created"
      THEN IF "data" \in DOMAIN data
           THEN [kind |-> "token", token_data |-> data.data] ELSE [kind |-> "error"]
    ELSE IF "mint" \in DOMAIN data /\ "txType" \in DOMAIN data /\ data.txType = "create"
      THEN [kind |-> "token", token_data |-> data]
    ELSE [kind |-> "dropped"]

\* token_data.get('uri', token_data.get('metadataUri', ''))
TokenUri(token_data) == Get(token_data, "uri", Get(token_data, "metadataUri", ""))

(* ----------------------------- filter gate ----------------------------- *)
\* on_websocket_message and process_token lines 199-210 for one frame: the
\* classification, the resolved link and what the parsers extract from it.
\* kind "error" is an exception caught at line 253, "token_error" one caught at
\* line 235 (token_data.get on a payload that is no object).
Extract(msg, resp) ==
  LET c == Classify(msg)
      none == [twitter_link |-> None, account_name |-> None, tweet_id |-> None]
  IN IF c.kind = "error" THEN [kind |-> "error"] @@ none
     ELSE IF c.kind = "dropped" THEN [kind |-> "dropped"] @@ none
     ELSE IF c.token_data = NotADict THEN [kind |-> "token_error"] @@ none
     ELSE LET twitter_link == get_token_links(TokenUri(c.token_data), resp).twitter
          IN [kind |-> "token",
              twitter_link |-> twitter_link,
              account_name |-> IF twitter_link = NonDisponible THEN None
                               ELSE extract_account_name(twitter_link),
              tweet_id |-> IF twitter_link = NonDisponible THEN None
                           ELSE extract_tweet_id(twitter_link)]

\* mutant: the allow-list is checked before the ledger
GateAllowListFirst(x, blacklist, allowed) ==
  IF x.kind = "error" THEN "MessageError"
  ELSE IF x.kind = "dropped" THEN "Dropped"
  ELSE IF x.kind = "token_error" THEN "TokenError"
  ELSE IF x.twitter_link = NonDisponible THEN "NoSocialLink"
  ELSE IF Falsy(x.account_name) \/ Falsy(x.tweet_id) THEN "UnparsableLink"
  ELSE IF ~InList(x.account_name, allowed) THEN "AccountNotAllowed"
  ELSE IF InList(TweetKey(x.tweet_id, x.account_name), blacklist) THEN "AlreadyProcessed"
  ELSE "Accept"

\* mutant: the allow-list is not checked
GateNoAllowList(x, blacklist, allowed) ==
  IF x.kind = "error" THEN "MessageError"
  ELSE IF x.kind = "dropped" THEN "Dropped"
  ELSE IF x.kind = "token_error" THEN "TokenError"
  ELSE IF x.twitter_link = NonDisponible THEN "NoSocialLink"
  ELSE IF Falsy(x.account_name) \/ Falsy(x.tweet_id) THEN "UnparsableLink"
  ELSE IF InList(TweetKey(x.tweet_id, x.account_name), blacklist) THEN "AlreadyProcessed"
  ELSE "Accept"

\* mutant: the allow-list is checked before the parse result
GateAllowListBeforeParse(x, blacklist, allowed) ==
  IF x.kind = "error" THEN "MessageError"
  ELSE IF x.kind = "dropped" THEN "Dropped"
  ELSE IF x.kind = "token_error" THEN "TokenError"
  ELSE IF x.twitter_link = NonDisponible THEN "NoSocialLink"
  ELSE IF ~InList(x.account_name, allowed) THEN "AccountNotAllowed"
  ELSE IF Falsy(x.account_name) \/ Falsy(x.tweet_id) THEN "UnparsableLink"
  ELSE IF InList(TweetKey(x.tweet_id, x.account_name), blacklist) THEN "AlreadyProcessed"
  ELSE "Accept"

\* process_token lines 205-225: the outcome for an extracted frame x
Gate(x, blacklist, allowed) ==
  IF x.kind = "error" THEN "MessageError"
  ELSE IF x.kind = "dropped" THEN "Dropped"
  ELSE IF x.kind = "token_error" THEN "TokenError"
  ELSE IF x.twitter_link = NonDisponible THEN "NoSocialLink"
  ELSE IF Falsy(x.account_name) \/ Falsy(x.tweet_id) THEN "UnparsableLink"
  ELSE IF InList(TweetKey(x.tweet_id, x.account_name), blacklist) THEN "AlreadyProcessed"
  ELSE IF ~InList(x.account_name, allowed) THEN "AccountNotAllowed"
  ELSE "Accept"

(* ------------------------------- inputs -------------------------------- *)
Https == <<"h","t","t","p","s",":","/","/">>
Alice == <<"a","l","i","c","e">>
Bob == <<"b","o","b">>
Id999 == <<"9","9","9">>

LinkAlice == Https \o XCom \o <<"/">> \o Alice \o StatusMarker \o Id999
LinkAliceSpace == Https \o XCom \o <<"/">> \o Alice \o StatusMarker \o <<" ">> \o Id999
LinkBob == Https \o TwitterCom \o <<"/">> \o Bob \o StatusMarker \o <<"1">>
LinkNoStatus == Https \o XCom \o <<"/">> \o Bob
LinkNoHost == Https \o <<"t",".","m","e","/">> \o Alice \o StatusMarker \o <<"5">>

\* values the metadata's twitter field takes (None is JSON null)
Links == {LinkAlice, LinkAliceSpace, LinkBob, LinkNoStatus, LinkNoHost, None}

MetaUri == "https://meta/1"
Ok200(metadata) == [kind |-> "ok", status |-> 200, metadata |-> metadata]

\* what the metadata fetch does
Responses ==
  {Ok200([twitter |-> l]) : l \in Links}
  \cup {Ok200([properties |-> [links |-> [twitter |-> LinkAlice]]]),
        Ok200([twitter_link |-> LinkBob]),
        Ok200([name |-> "tok"]),
        [kind |-> "ok", status |-> 500, metadata |-> [twitter |-> LinkAlice]],
        [kind |-> "timeout", status |-> 0, metadata |-> [name |-> "tok"]],
        [kind |-> "error", status |-> 0, metadata |-> [name |-> "tok"]]}

Decoded(data) == [decodes |-> TRUE, data |-> data]
FlatFrame == Decoded([mint |-> "abc", txType |-> "create", uri |-> MetaUri])
\* the frame {"mint":"abc","txType":"create"}: no uri
FlatFrameNoUri == Decoded([mint |-> "abc", txType |-> "create"])

\* inbound frames
Messages ==
  {FlatFrame, FlatFrameNoUri,
   Decoded([method |-> "newToken", params |-> [uri |-> MetaUri]]),
   Decoded([type |-> "newToken", metadataUri |-> MetaUri]),
   Decoded([event |-> "token_created", data |-> [uri |-> MetaUri]]),
   Decoded([method |-> "newToken"]),
   Decoded([event |-> "token_created"]),
   Decoded([method |-> "newToken", params |-> NotADict]),
   Decoded([method |-> "ping"]),
   Decoded(NotADict),
   [decodes |-> FALSE, data |-> NotADict]}

\* (frame, fetch) pairs offered to the receive loop
Inputs ==
  {<<m, Ok200([twitter |-> LinkAlice])>> : m \in Messages}
  \cup {<<FlatFrame, r>> : r \in Responses}

\* the distinct extracted frames the inputs give
Frames == {Extract(in[1], in[2]) : in \in Inputs}

\* (tweet_blacklist.txt, allowed_accounts.txt) as main() may find them: a first
\* start with an allow-list, and a ledger with a comment and a record but no
\* allow-list file
InitialFiles ==
  {<<NoFile, <<" ","A","l","i","c","e","\n","\n">> >>,
   <<(<<"#"," ","s","e","e","n","\n">> \o TweetKey(<<"1">>, Bob) \o <<"\n">>), NoFile>>}

(* -------------------------------- state -------------------------------- *)
VARIABLES
  run,               \* which execution of main() this is
  ledgerFile,        \* tweet_blacklist.txt
  allowedFile,       \* allowed_accounts.txt
  tweet_blacklist,   \* the global list
  allowed_accounts,  \* the global list
  channel,           \* self.channel
  ws,                \* per receive-loop thread: where run_websocket is
  cur,               \* per thread: the frame accepted at line 225, not yet saved
  pending,           \* send_tweet coroutines handed to the event loop, not finished
  dispatched,        \* history: every hand-off, with its key and run
  last,              \* history: the exit the latest frame or send_tweet step took
  sent,              \* per thread: what was sent on its current connection
  probe              \* the call under test and its result (single-call runs only)

vars == <<run, ledgerFile, allowedFile, tweet_blacklist, allowed_accounts, channel,
          ws, cur, pending, dispatched, last, sent, probe>>

\* the run_websocket threads: the one the first on_ready starts and the one a
\* further on_ready starts (on_ready does not look at self.websocket_thread)
Threads == {1, 2}
Idle == [busy |-> FALSE]
NoFrame == "None"
\* no single call is under test
NoProbe == [fn |-> "none"]
NoChannel == "None"
TheChannel == "channel"

Init ==
  /\ run = 1
  /\ \E f \in InitialFiles : ledgerFile = f[1] /\ allowedFile = f[2]
  /\ tweet_blacklist = load_tweet_blacklist(ledgerFile)
  /\ allowed_accounts = load_allowed_accounts(allowedFile)
  /\ channel = NoChannel
  /\ ws = [t \in Threads |-> "NotStarted"]
  /\ cur = [t \in Threads |-> Idle]
  /\ pending = <<>>
  /\ dispatched = <<>>
  /\ last = NoFrame
  /\ sent = [t \in Threads |-> <<>>]
  /\ probe = NoProbe

(* ------------------------------- actions ------------------------------- *)
Remove(seq, i) == SubSeq(seq, 1, i - 1) \o SubSeq(seq, i + 1, Len(seq))

\* outcomes of a frame that are failures caught by a handler
ErrorOutcomes == {"MessageError", "TokenError"}
\* outcomes with which process_token returns early (lines 207, 214, 220, 225)
RejectOutcomes == {"NoSocialLink", "UnparsableLink", "AlreadyProcessed", "AccountNotAllowed"}

\* the exit the frame handler took
ExitOf(outcome) ==
  IF outcome \in ErrorOutcomes THEN "Error"
  ELSE IF outcome \in RejectOutcomes THEN "Rejected"
  ELSE outcome

\* mutant: the exception leaves the handler and ends run_forever
OnFrameErrorPropagates == "Disconnected"

\* where the receive loop is after a frame raised inside on_websocket_message or
\* process_token: the except clauses return normally, the connection stays open
OnFrameError == "Subscribed"

\* mutant: an exception raised by run_forever is not caught, the thread ends
ConnectionEndedUncaught(reason) == IF reason = "exception" THEN "Stopped" ELSE "Disconnected"

\* where run_websocket is once run_forever has returned (error or close event)
\* or raised: line 284, then the sleep
ConnectionEnded(reason) == "Disconnected"

\* where run_websocket is when time.sleep(10) returns: the top of while True
AfterBackoff == "Connecting"

\* mutant: the failed notification's key is taken out of the ledger again
SendFailedRollback(blacklist, item) ==
  SelectSeq(blacklist,
            LAMBDA k : k # extract_tweet_id(item.twitter_link) \o <<"|">> \o item.account_name)

\* the ledger after send_tweet's channel.send raised: the except logs, no more
SendFailed(blacklist, item) == blacklist

\* the text send_tweet posts (the leading bell emoji is the token "(bell)")
NotifyText(twitter_link, account_name) ==
  <<"(bell)"," ","N","o","u","v","e","a","u"," ","t","w","e","e","t"," ","d","e"," ","@">>
  \o account_name \o <<":","\n">> \o twitter_link

\* on_ready: look the channel up; when found, start a run_websocket thread
\* (started = FALSE: Thread.start raised, caught at line 181)
OnReady ==
  \E found \in BOOLEAN, started \in BOOLEAN :
    /\ channel' = IF found THEN TheChannel ELSE NoChannel
    /\ IF found /\ started
       THEN /\ \E t \in Threads : ws[t] = "NotStarted"
            /\ LET t == CHOOSE u \in Threads :
                          ws[u] = "NotStarted" /\ \A v \in Threads : ws[v] = "NotStarted" => u <= v
               IN ws' = [ws EXCEPT ![t] = "Connecting"]
       ELSE ws' = ws
    /\ UNCHANGED <<run, ledgerFile, allowedFile, tweet_blacklist, allowed_accounts,
                   cur, pending, dispatched, last, sent, probe>>

\* mutant: on_websocket_open only logs
SubscribeNothing == "none"

\* json.dumps({"method": "subscribeNewToken"}): the method the request names
SubscribeRequest == "subscribeNewToken"

\* on_websocket_open, called by run_forever once the connection is open and
\* before it reads a frame: the subscription request is sent
OnOpen(t) ==
  /\ ws[t] = "Connecting"
  /\ ws' = [ws EXCEPT ![t] = "Subscribed"]
  /\ sent' = [sent EXCEPT ![t] = Append(@, SubscribeRequest)]
  /\ UNCHANGED <<run, ledgerFile, allowedFile, tweet_blacklist, allowed_accounts, channel,
                 cur, pending, dispatched, last, probe>>

\* mutant: process_token waits for the result of the future it scheduled
CanReceiveAfterSend(t) == ws[t] = "Subscribed" /\ ~cur[t].busy /\ pending = <<>>

\* run_forever hands loop t its next frame: the connection is subscribed and the
\* handler of the previous frame has returned.  run_coroutine_threadsafe (line
\* 230) returns a future at once and process_token never waits on it.
CanReceive(t) == ws[t] = "Subscribed" /\ ~cur[t].busy

\* on_websocket_message and process_token up to line 225, for one frame.
\* Each on_ready starts its own receive thread (line 180) and the threads share
\* tweet_blacklist; the ledger check of one thread (line 218) and its append
\* (line 67) are separated by file I/O, so another thread can run in between.
\* Every other exit of the handler is taken within this one step.
OnMessage(t) ==
  /\ CanReceive(t)
  /\ \E x \in Frames :
       LET outcome == Gate(x, tweet_blacklist, allowed_accounts) IN
         /\ outcome = "Accept" =>
              Len(dispatched) + Cardinality({u \in Threads : cur[u].busy}) < MaxDispatch
         /\ cur' = IF outcome = "Accept"
                   THEN [cur EXCEPT ![t] = [busy |-> TRUE, frame |-> x]]
                   ELSE cur
         /\ ws' = IF outcome \in ErrorOutcomes
                  THEN [ws EXCEPT ![t] = OnFrameError]
                  ELSE ws
         /\ last' = ExitOf(outcome)
  /\ UNCHANGED <<run, ledgerFile, allowedFile, tweet_blacklist, allowed_accounts, channel,
                 pending, dispatched, sent, probe>>

\* process_token lines 228-233: save_to_blacklist, then the hand-off of
\* send_tweet to the event loop
SaveAndDispatch(t) ==
  /\ cur[t].busy
  /\ \E io_ok \in BOOLEAN :
       LET x == cur[t].frame
           saved == save_to_blacklist(ledgerFile, tweet_blacklist, x.tweet_id, x.account_name, io_ok)
       IN /\ ledgerFile' = saved.file
          /\ tweet_blacklist' = saved.blacklist
          /\ pending' = Append(pending, [twitter_link |-> x.twitter_link,
                                         account_name |-> x.account_name])
          /\ dispatched' = Append(dispatched,
                                  [key |-> TweetKey(x.tweet_id, x.account_name),
                                   account_name |-> x.account_name,
                                   saved |-> io_ok,
                                   run |-> run])
          /\ last' = IF io_ok THEN "Saved" ELSE "SaveFailed"
  /\ cur' = [cur EXCEPT ![t] = Idle]
  /\ UNCHANGED <<run, allowedFile, allowed_accounts, channel, ws, sent, probe>>

\* send_tweet on the event loop: channel.send succeeds, the channel has the text
SendOk ==
  /\ channel = TheChannel
  /\ \E i \in 1..Len(pending) :
       pending' = Remove(pending, i)
  /\ last' = "Sent"
  /\ UNCHANGED <<run, ledgerFile, allowedFile, tweet_blacklist, allowed_accounts, channel,
                 ws, cur, dispatched, sent, probe>>

\* send_tweet on the event loop: channel.send raises
SendFail ==
  /\ channel = TheChannel
  /\ \E i \in 1..Len(pending) :
       /\ tweet_blacklist' = SendFailed(tweet_blacklist, pending[i])
       /\ pending' = Remove(pending, i)
  /\ last' = "SendFailed"
  /\ UNCHANGED <<run, ledgerFile, allowedFile, allowed_accounts, channel,
                 ws, cur, dispatched, sent, probe>>

\* send_tweet on the event loop: self.channel is None, return at line 188
SendNoChannel ==
  /\ channel = NoChannel
  /\ \E i \in 1..Len(pending) :
       pending' = Remove(pending, i)
  /\ last' = "NotInitialised"
  /\ UNCHANGED <<run, ledgerFile, allowedFile, tweet_blacklist, allowed_accounts, channel,
                 ws, cur, dispatched, sent, probe>>

\* the connection ends: on_error / on_close and run_forever returns, or an
\* exception reaches the except of run_websocket
ConnectionEnds(t) ==
  /\ ws[t] \in {"Connecting", "Subscribed"}
  /\ ~cur[t].busy
  /\ \E reason \in {"error", "close", "exception"} :
       ws' = [ws EXCEPT ![t] = ConnectionEnded(reason)]
  /\ sent' = [sent EXCEPT ![t] = <<>>]
  /\ UNCHANGED <<run, ledgerFile, allowedFile, tweet_blacklist, allowed_accounts, channel,
                 cur, pending, dispatched, last, probe>>

\* time.sleep(10) returns and the loop creates the next WebSocketApp
Backoff(t) ==
  /\ ws[t] = "Disconnected"
  /\ ws' = [ws EXCEPT ![t] = AfterBackoff]
  /\ UNCHANGED <<run, ledgerFile, allowedFile, tweet_blacklist, allowed_accounts, channel,
                 cur, pending, dispatched, last, sent, probe>>

\* the process ends (kill, crash) and main() runs again: the lists are loaded
\* from the files, threads and scheduled coroutines are gone
Restart ==
  /\ run < MaxRuns
  /\ run' = run + 1
  /\ tweet_blacklist' = load_tweet_blacklist(ledgerFile)
  /\ allowed_accounts' = load_allowed_accounts(allowedFile)
  /\ channel' = NoChannel
  /\ ws' = [t \in Threads |-> "NotStarted"]
  /\ cur' = [t \in Threads |-> Idle]
  /\ pending' = <<>>
  /\ last' = NoFrame
  /\ sent' = [t \in Threads |-> <<>>]
  /\ UNCHANGED <<ledgerFile, allowedFile, dispatched, probe>>

Next ==
  \/ OnReady
  \/ \E t \in Threads : OnOpen(t)
  \/ \E t \in Threads : OnMessage(t)
  \/ \E t \in Threads : SaveAndDispatch(t)
  \/ SendOk
  \/ SendFail
  \/ SendNoChannel
  \/ \E t \in Threads : ConnectionEnds(t)
  \/ \E t \in Threads : Backoff(t)
  \/ Restart

Spec == Init /\ [][Next]_vars

\* the sleep returns, the loop is never abandoned by the scheduler
FairSpec == Spec /\ \A t \in Threads : WF_vars(Backoff(t))

WsStates == {"NotStarted", "Connecting", "Subscribed", "Disconnected"}

TypeOK ==
  /\ run \in 1..MaxRuns
  /\ channel \in {NoChannel, TheChannel}
  /\ \A t \in Threads : ws[t] \in WsStates /\ cur[t].busy \in BOOLEAN
  /\ Len(dispatched) <= MaxDispatch
  /\ Len(pending) <= Len(dispatched)
  /\ \A t \in Threads : Len(sent[t]) <= 1

(* --------------------------- single-call runs --------------------------- *)
(* A second specification: one call of one function on one input, drawn in  *)
(* the initial state from the sets below, on a process that has loaded its  *)
(* lists and started no receive loop.                                       *)

\* the result of a call that has not returned yet
Pending == "pending"

\* metadata URIs a frame carries ("" is what process_token reads when there is none)
Uris == {"https://meta/1", "https://meta/2"}
\* the two keys process_token looks the URI up under (line 199)
UriKeys == {"uri", "metadataUri"}

\* the payload object carrying uri under key
UriPayload(key, uri) == IF key = "uri" THEN [uri |-> uri] ELSE [metadataUri |-> uri]

\* a frame of recognized wire shape 1..4 carrying uri under key
ShapeFrame(shape, key, uri) ==
  CASE shape = 1 -> Decoded([method |-> "newToken", params |-> UriPayload(key, uri)])
    [] shape = 2 -> Decoded([type |-> "newToken"] @@ UriPayload(key, uri))
    [] shape = 3 -> Decoded([event |-> "token_created", data |-> UriPayload(key, uri)])
    [] shape = 4 -> Decoded([mint |-> "abc", txType |-> "create"] @@ UriPayload(key, uri))

\* frames of none of the four shapes
OtherFrames ==
  {Decoded([method |-> "ping"]),
   Decoded([method |-> "subscribed", params |-> [uri |-> "https://meta/1"]]),
   Decoded([type |-> "trade", uri |-> "https://meta/1"]),
   Decoded([event |-> "token_updated", data |-> [uri |-> "https://meta/1"]]),
   Decoded([mint |-> "abc", txType |-> "buy", uri |-> "https://meta/1"]),
   Decoded([txType |-> "create", uri |-> "https://meta/1"]),
   Decoded([mint |-> "abc", uri |-> "https://meta/1"]),
   Decoded([uri |-> "https://meta/1"]),
   Decoded([method |-> "newToken"]),
   Decoded([event |-> "token_created"]),
   Decoded(NotADict),
   [decodes |-> FALSE, data |-> NotADict]}

\* (tweet_blacklist.txt, allowed_accounts.txt) at startup: every combination of
\* a ledger holding neither, one or both of 999|alice and 1|bob with an
\* allow-list of neither, one or both of alice and bob
CallLedgers ==
  {NoFile,
   TweetKey(Id999, Alice) \o <<"\n">>,
   TweetKey(<<"1">>, Bob) \o <<"\n">>,
   TweetKey(Id999, Alice) \o <<"\n">> \o TweetKey(<<"1">>, Bob) \o <<"\n">>}
CallAllowLists ==
  {NoFile, Alice \o <<"\n">>, Bob \o <<"\n">>, Alice \o <<"\n">> \o Bob \o <<"\n">>}

\* what main() leaves before any event: the lists loaded, nothing started
Loaded ==
  /\ run = 1
  /\ tweet_blacklist = load_tweet_blacklist(ledgerFile)
  /\ allowed_accounts = load_allowed_accounts(allowedFile)
  /\ channel = NoChannel
  /\ ws = [t \in Threads |-> "NotStarted"]
  /\ cur = [t \in Threads |-> Idle]
  /\ pending = <<>>
  /\ dispatched = <<>>
  /\ last = NoFrame
  /\ sent = [t \in Threads |-> <<>>]

\* a call of on_websocket_message: a frame of a recognized shape (shape 1..4,
\* with the uri it carries) or another frame (shape 0), and what the fetch does
MessageCalls ==
  {[fn |-> "on_websocket_message", shape |-> sh, key |-> k, uri |-> u,
    message |-> ShapeFrame(sh, k, u), response |-> Ok200([twitter |-> LinkAlice]),
    done |-> FALSE, result |-> Pending] : sh \in 1..4, k \in UriKeys, u \in Uris}
  \cup
  {[fn |-> "on_websocket_message", shape |-> 0, key |-> "uri", uri |-> "",
    message |-> m, response |-> Ok200([twitter |-> LinkAlice]),
    done |-> FALSE, result |-> Pending] : m \in OtherFrames}

\* what the fetch of a call of get_token_links does: the responses above, other
\* statuses, and bodies giving all three links in either place
CallResponses ==
  Responses
  \cup {[kind |-> "ok", status |-> 404, metadata |-> [twitter |-> LinkAlice, website |-> "w", telegram |-> "t"]],
        [kind |-> "ok", status |-> 301, metadata |-> [properties |-> [links |-> [twitter |-> LinkAlice]]]],
        [kind |-> "ok", status |-> 503, metadata |-> [twitter_link |-> LinkBob]],
        [kind |-> "timeout", status |-> 0, metadata |-> [twitter |-> LinkAlice]],
        [kind |-> "error", status |-> 200, metadata |-> [twitter |-> LinkAlice]],
        Ok200([properties |-> [links |-> [twitter |-> LinkAlice, website |-> "w", telegram |-> "t"]]]),
        Ok200([twitter |-> LinkBob, website_link |-> "w", telegram_link |-> "t"]),
        Ok200(NotADict)}

\* a call of get_token_links
ResolverCalls ==
  {[fn |-> "get_token_links", uri |-> u, response |-> r, done |-> FALSE, result |-> Pending] :
     u \in Uris \cup {""}, r \in CallResponses}

\* account segments and ids a social link is built from
Accounts ==
  {Alice, Bob, <<"A","l","-","i","c","e">>, <<"a","_","B","9">>, <<"@","b","o","b",".">>,
   <<"s","t","a","t","u","s">>, <<>>}
Ids == {Id999, <<"1">>, <<"2","0","4","8">>}
Hosts == {XCom, TwitterCom}

\* what follows the account segment: nothing, /status/<id> alone or followed by
\* a sub-path, a query, a fragment, or the query and fragment ?x=1#y
Forms == {"none", "plain", "subpath", "query", "fragment", "query+fragment"}
LinkTail(form, id) ==
  CASE form = "none" -> <<>>
    [] form = "plain" -> StatusMarker \o id
    [] form = "subpath" -> StatusMarker \o id \o <<"/","p","h","o","t","o","/","1">>
    [] form = "query" -> StatusMarker \o id \o <<"?","s","=","2","0">>
    [] form = "fragment" -> StatusMarker \o id \o <<"#","m">>
    [] form = "query+fragment" -> StatusMarker \o id \o <<"?","x","=","1","#","y">>

\* https://<host>/<acct><tail>
LinkOf(host, acct, form, id) == Https \o host \o <<"/">> \o acct \o LinkTail(form, id)

\* a call of extract_account_name and extract_tweet_id on one link (lines 209-210)
ParserCalls ==
  {[fn |-> "link_parser", host |-> h, acct |-> a, form |-> f, id |-> i,
    twitter_link |-> LinkOf(h, a, f, i), done |-> FALSE, result |-> Pending] :
     h \in Hosts, a \in Accounts, f \in Forms, i \in Ids}

\* values of the twitter field of the fetched metadata: links of every form
\* for alice and bob, a link with an empty account, one with an empty id, one of
\* another host, JSON null and the literal "Non disponible"
CallLinks ==
  {LinkOf(h, a, f, Id999) : h \in Hosts, a \in {Alice}, f \in Forms}
  \cup {LinkBob, LinkNoStatus, LinkNoHost, None, NonDisponible,
        LinkOf(XCom, <<>>, "plain", Id999), LinkOf(XCom, Alice, "plain", <<>>)}

\* a call of on_websocket_message on the flat record, for every such link and
\* for fetches that fail
GateCalls ==
  {[fn |-> "on_websocket_message", shape |-> 4, key |-> "uri", uri |-> "https://meta/1",
    message |-> ShapeFrame(4, "uri", "https://meta/1"), response |-> r,
    done |-> FALSE, result |-> Pending] :
     r \in {Ok200([twitter |-> l]) : l \in CallLinks}
            \cup {[kind |-> "ok", status |-> 500, metadata |-> [twitter |-> LinkAlice]],
                  [kind |-> "timeout", status |-> 0, metadata |-> [twitter |-> LinkAlice]]}}

CallInit ==
  /\ \/ /\ ledgerFile \in CallLedgers
        /\ allowedFile \in CallAllowLists
        /\ probe \in MessageCalls \cup GateCalls
     \/ /\ ledgerFile = NoFile
        /\ allowedFile = NoFile
        /\ probe \in ResolverCalls \cup ParserCalls
  /\ Loaded

\* on_websocket_message(ws, message) run to its return on one thread: the
\* classification, process_token when a shape matches, and for an accepted
\* frame save_to_blacklist and the hand-off
CallOnMessage ==
  /\ probe.fn = "on_websocket_message"
  /\ ~probe.done
  /\ \E io_ok \in BOOLEAN :
       LET c == Classify(probe.message)
           x == Extract(probe.message, probe.response)
           outcome == Gate(x, tweet_blacklist, allowed_accounts)
           saved == save_to_blacklist(ledgerFile, tweet_blacklist, x.tweet_id, x.account_name, io_ok)
       IN /\ probe' = [probe EXCEPT !.done = TRUE, !.result =
                         [process_token |-> c.kind = "token",
                          uri |-> IF x.kind = "token" THEN TokenUri(c.token_data) ELSE "",
                          twitter_link |-> x.twitter_link,
                          outcome |-> outcome]]
          /\ IF outcome = "Accept"
             THEN /\ ledgerFile' = saved.file
                  /\ tweet_blacklist' = saved.blacklist
                  /\ pending' = Append(pending, [twitter_link |-> x.twitter_link,
                                                 account_name |-> x.account_name])
                  /\ dispatched' = Append(dispatched,
                                          [key |-> TweetKey(x.tweet_id, x.account_name),
                                           account_name |-> x.account_name,
                                           saved |-> io_ok,
                                           run |-> run])
                  /\ last' = IF io_ok THEN "Saved" ELSE "SaveFailed"
             ELSE /\ UNCHANGED <<ledgerFile, tweet_blacklist, pending, dispatched>>
                  /\ last' = ExitOf(outcome)
  /\ UNCHANGED <<run, allowedFile, allowed_accounts, channel, ws, cur, sent>>

\* get_token_links(uri) run to its return
CallResolver ==
  /\ probe.fn = "get_token_links"
  /\ ~probe.done
  /\ probe' = [probe EXCEPT !.done = TRUE,
                             !.result = get_token_links_call(probe.uri, probe.response)]
  /\ UNCHANGED <<run, ledgerFile, allowedFile, tweet_blacklist, allowed_accounts, channel,
                 ws, cur, pending, dispatched, last, sent>>

\* extract_account_name(twitter_link) and extract_tweet_id(twitter_link) run to
\* their return
CallLinkParser ==
  /\ probe.fn = "link_parser"
  /\ ~probe.done
  /\ probe' = [probe EXCEPT !.done = TRUE,
                             !.result = [account_name |-> extract_account_name(probe.twitter_link),
                                         tweet_id |-> extract_tweet_id(probe.twitter_link)]]
  /\ UNCHANGED <<run, ledgerFile, allowedFile, tweet_blacklist, allowed_accounts, channel,
                 ws, cur, pending, dispatched, last, sent>>

CallNext ==
  \/ CallOnMessage
  \/ CallResolver
  \/ CallLinkParser

CallSpec == CallInit /\ [][CallNext]_vars

(* ------------------------------- claims -------------------------------- *)
IsPrefix(a, b) == Len(a) <= Len(b) /\ SubSeq(b, 1, Len(a)) = a

\* "999|alice", spelled out
Key999Alice == <<"9","9","9","|","a","l","i","c","e">>

\* x carries an extracted account, and it is not in the allow-list
AccountNotListed(x) ==
  /\ x.kind = "token"
  /\ x.twitter_link # NonDisponible
  /\ ~Falsy(x.account_name)
  /\ ~InList(x.account_name, allowed_accounts)

\* C1: within one run, no two hand-offs to the sink carry the same DedupKey
\* (at most one frame per key is accepted).
C1_AtMostOncePerKey ==
  \A i, j \in 1..Len(dispatched) :
    (i # j /\ dispatched[i].run = dispatched[j].run) => dispatched[i].key # dispatched[j].key

\* C2: a key accepted and written by save_to_blacklist in one run is never
\* accepted again in a later run (load_tweet_blacklist reads the record back as
\* the identical key, so the frame is rejected as AlreadyProcessed).
C2_DedupSurvivesRestart ==
  \A i, j \in 1..Len(dispatched) :
    (dispatched[i].saved /\ dispatched[i].run < dispatched[j].run)
      => dispatched[i].key # dispatched[j].key

\* C3: every notification handed to the sink in this run is for a key that is
\* already in the in-memory ledger and in the ledger file.
C3_CommitBeforeNotify ==
  \A i \in 1..Len(dispatched) :
    dispatched[i].run = run =>
      /\ InList(dispatched[i].key, tweet_blacklist)
      /\ ledgerFile # NoFile
      /\ InList(dispatched[i].key \o <<"\n">>, FileLines(ledgerFile))

\* C4 as stated: a frame whose extracted identity (account and message id) has
\* an account that is not in the allow-list is always decided
\* Reject(AccountNotAllowed), whatever the ledger holds.
C4_AlwaysAccountNotAllowed ==
  \A x \in Frames :
    (AccountNotListed(x) /\ ~Falsy(x.tweet_id))
      => Gate(x, tweet_blacklist, allowed_accounts) = "AccountNotAllowed"

\* C4 amended: such a frame is never accepted; the reason is UnparsableLink when
\* no message id is extracted, AlreadyProcessed when its key is in the ledger,
\* and AccountNotAllowed otherwise.
C4_NotListedRejected ==
  \A x \in Frames :
    AccountNotListed(x) =>
      Gate(x, tweet_blacklist, allowed_accounts) =
        IF Falsy(x.tweet_id) THEN "UnparsableLink"
        ELSE IF InList(x.tweet_id \o <<"|">> \o x.account_name, tweet_blacklist)
             THEN "AlreadyProcessed"
        ELSE "AccountNotAllowed"

\* a frame of an account outside the allow-list was rejected while its key is in
\* the ledger
C4_Witness ==
  /\ last = "Rejected"
  /\ \E x \in Frames :
       /\ AccountNotListed(x)
       /\ ~Falsy(x.tweet_id)
       /\ InList(x.tweet_id \o <<"|">> \o x.account_name, tweet_blacklist)

\* C5: every frame past the gate, every pending notification and every hand-off
\* (so every key appended at runtime) has an account of the allow-list, and the
\* allow-list does not change after startup.
C5_AllowedOnly ==
  /\ \A t \in Threads : cur[t].busy => InList(cur[t].frame.account_name, allowed_accounts)
  /\ \A i \in 1..Len(pending) : InList(pending[i].account_name, allowed_accounts)
  /\ \A i \in 1..Len(dispatched) : InList(dispatched[i].account_name, allowed_accounts)
  /\ allowed_accounts = load_allowed_accounts(allowedFile)

C5_AllowListGate == [](C5_AllowedOnly) /\ [][allowed_accounts' = allowed_accounts]_vars

\* a key was appended at runtime and its notification handed off
C5_Witness ==
  /\ Len(dispatched) > 0
  /\ dispatched[Len(dispatched)].saved
  /\ dispatched[Len(dispatched)].run = run
  /\ InList(dispatched[Len(dispatched)].key, tweet_blacklist)

\* C6: within a run every step leaves the in-memory ledger an extension of what
\* it was, and the ledger file only ever grows by appending.
C6_AppendOnly ==
  [][/\ run' = run => IsPrefix(tweet_blacklist, tweet_blacklist')
     /\ ledgerFile # NoFile => (ledgerFile' # NoFile /\ IsPrefix(ledgerFile, ledgerFile'))]_vars

\* two keys were appended, a notification failed and a connection was lost
C6_Witness ==
  /\ Len(tweet_blacklist) >= 2
  /\ last = "SendFailed"
  /\ \E t \in Threads : ws[t] = "Disconnected"

\* the frame {"mint":"abc","txType":"create"} as extracted when the metadata
\* fetch answers with the link https://x.com/alice/status/999
ScenarioFrameAsStated == Extract(FlatFrameNoUri, Ok200([twitter |-> LinkAlice]))
\* the same frame carrying a uri
ScenarioFrame == Extract(FlatFrame, Ok200([twitter |-> LinkAlice]))

C7_Handled(t) ==
  /\ cur[t].busy /\ cur[t].frame = ScenarioFrame
  /\ ~cur'[t].busy /\ run' = run

C8_Reconnect ==
  /\ [][\A t \in Threads :
          /\ (ws[t] \in {"Connecting", "Subscribed"} /\ run' = run)
               => ws'[t] \in {"Connecting", "Subscribed", "Disconnected"}
          /\ (ws[t] = "Disconnected" /\ run' = run)
               => ws'[t] \in {"Disconnected", "Connecting"}
          /\ ws'[t] = "NotStarted" => (ws[t] = "NotStarted" \/ run' # run)]_vars
  /\ \A t \in Threads :
       (ws[t] = "Disconnected") ~> (ws[t] \in {"Connecting", "NotStarted"})

\* a loop that has handled frames is in its back-off
C8_Witness ==
  /\ \E t \in Threads : ws[t] = "Disconnected"
  /\ Len(dispatched) > 0 /\ dispatched[Len(dispatched)].run = run

\* the step finishes a save_to_blacklist that failed
SaveFailedStep ==
  /\ \E t \in Threads : cur[t].busy /\ ~cur'[t].busy
  /\ run' = run
  /\ last' = "SaveFailed"

\* C9: a frame whose handling fails (an exception caught in
\* on_websocket_message or process_token, a failed fetch or parse that ends in
\* a rejection, a failed ledger write) leaves every connection where it was and
\* the ledger, the file and the allow-list unchanged, so the next frame is
\* decided as if the failing frame had not been received.
C9_FrameErrorContained ==
  /\ [][(last' \in {"Error", "Rejected", "Dropped"} /\ last' # last)
          => UNCHANGED <<run, ws, cur, tweet_blacklist, ledgerFile, allowed_accounts,
                         channel, pending, dispatched>>]_vars
  /\ [][SaveFailedStep
          => UNCHANGED <<ws, tweet_blacklist, ledgerFile, allowed_accounts, channel>>]_vars

\* a frame raised in the handler and the loop is still subscribed
C9_Witness ==
  /\ last = "Error"
  /\ \E t \in Threads : ws[t] = "Subscribed" /\ ~cur[t].busy

\* the step is send_tweet failing to deliver
SendFailedStep == last' = "SendFailed" /\ Len(pending') < Len(pending)

\* C10: a failed delivery changes neither the ledger, the file, the
\* connections nor the hand-off history (nothing is rolled back, nothing is
\* sent again), and a frame whose key is in the ledger is still rejected as
\* AlreadyProcessed afterwards.
C10_SinkFailureNoRollback ==
  [][SendFailedStep =>
       /\ UNCHANGED <<run, tweet_blacklist, ledgerFile, ws, cur, allowed_accounts, dispatched>>
       /\ Len(pending') = Len(pending) - 1
       /\ \A x \in Frames :
            Gate(x, tweet_blacklist, allowed_accounts) = "AlreadyProcessed"
              => Gate(x, tweet_blacklist', allowed_accounts') = "AlreadyProcessed"]_vars

\* the delivery for a committed key failed
C10_Witness ==
  /\ last = "SendFailed"
  /\ pending = <<>>
  /\ Len(dispatched) = 1 /\ dispatched[1].saved /\ dispatched[1].run = run
  /\ InList(dispatched[1].key, tweet_blacklist)

\* the step in which loop t finishes an accepted frame: save and hand-off
HandOffStep(t) == cur[t].busy /\ ~cur'[t].busy /\ run' = run

\* C11: the hand-off returns with the notification still pending and the loop
\* free; whatever is pending, a subscribed loop whose handler has returned can
\* take its next frame and a loop holding an accepted frame can commit it.
C11_IntakeNotBlocked ==
  /\ [](\A t \in Threads :
         /\ (ws[t] = "Subscribed" /\ ~cur[t].busy) => ENABLED OnMessage(t)
         /\ cur[t].busy => ENABLED SaveAndDispatch(t))
  /\ [][\A t \in Threads : HandOffStep(t) =>
          /\ Len(pending') = Len(pending) + 1
          /\ ws'[t] = ws[t]]_vars

\* a second frame was committed while the notification of the first is still
\* pending
C11_Witness ==
  /\ Len(pending) = 2
  /\ last = "Saved"
  /\ Len(dispatched) = 2 /\ dispatched[1].run = run /\ dispatched[2].saved
  /\ InList(dispatched[2].key, tweet_blacklist)

\* C12: at most one receive loop exists at any moment, and no two frames with
\* the same key are both past the membership check.
C12_SingleWriter ==
  /\ Cardinality({t \in Threads : ws[t] # "NotStarted"}) <= 1
  /\ \A t, u \in Threads :
       (t # u /\ cur[t].busy /\ cur[u].busy)
         => TweetKey(cur[t].frame.tweet_id, cur[t].frame.account_name)
              # TweetKey(cur[u].frame.tweet_id, cur[u].frame.account_name)


\* the step in which the call of on_websocket_message under test returns
MessageCallStep == probe.fn = "on_websocket_message" /\ ~probe.done /\ probe'.done

\* C13: a frame of any of the four recognized shapes carrying a uri (under uri
\* or metadataUri) makes on_websocket_message call process_token, which reads
\* exactly that uri and decides as it does for the flat record carrying it; a
\* frame of no recognized shape returns without process_token, leaving the
\* ledger, its file and the notifications untouched.
C13_ClassifierCoverage ==
  /\ []((probe.fn = "on_websocket_message" /\ probe.done) =>
          IF probe.shape \in 1..4
          THEN probe.result.process_token /\ probe.result.uri = probe.uri
          ELSE /\ ~probe.result.process_token
               /\ probe.result.outcome \in {"Dropped", "MessageError"}
               /\ pending = <<>> /\ dispatched = <<>>)
  /\ [][MessageCallStep =>
          IF probe.shape \in 1..4
          THEN probe'.result.outcome =
                 Gate(Extract(ShapeFrame(4, "uri", probe.uri), probe.response),
                      tweet_blacklist, allowed_accounts)
          ELSE UNCHANGED <<tweet_blacklist, ledgerFile, pending, dispatched>>]_vars

\* the event-tagged envelope carrying its uri under metadataUri was accepted
C13_Witness ==
  /\ probe.fn = "on_websocket_message" /\ probe.done
  /\ probe.shape = 3 /\ probe.key = "metadataUri"
  /\ probe.result.uri = "https://meta/2"
  /\ probe.result.outcome = "Accept"
  /\ Len(dispatched) = 1

\* C14: get_token_links returns the bundle with twitter, website and telegram
\* all "Non disponible", and no exception leaves it, whenever the uri is absent
\* (and then no fetch is issued) or the fetch ends in a status other than 200,
\* a timeout or another error.
C14_ResolverFailSafe ==
  (probe.fn = "get_token_links" /\ probe.done
     /\ (probe.uri = "" \/ probe.response.kind # "ok" \/ probe.response.status # 200))
    => /\ ~probe.result.raised
       /\ probe.result.links.twitter = NonDisponible
       /\ probe.result.links.website = NonDisponible
       /\ probe.result.links.telegram = NonDisponible
       /\ probe.uri = "" => probe.result.fetches = 0

\* a fetch answered 404 with a body that names all three links
C14_Witness ==
  /\ probe.fn = "get_token_links" /\ probe.done
  /\ probe.uri # "" /\ probe.response.kind = "ok" /\ probe.response.status = 404
  /\ "website" \in DOMAIN probe.response.metadata
  /\ probe.result.fetches = 1
  /\ probe.result.links.twitter = NonDisponible

\* <acct> lower-cased with every character that is neither alphanumeric nor
\* an underscore removed
Sanitized(acct) == SelectSeq(Lower(acct), LAMBDA c : IsAlnum(c) \/ c = "_")

\* C15: on https://x.com/<acct>/status/<id>?x=1#y, for every account and id,
\* extract_account_name returns <acct> lower-cased and sanitized and
\* extract_tweet_id returns exactly <id>.
C15_LinkRoundTrip ==
  (probe.fn = "link_parser" /\ probe.done
     /\ probe.host = XCom /\ probe.form = "query+fragment")
    => /\ probe.result.account_name = Sanitized(probe.acct)
       /\ probe.result.tweet_id = probe.id

\* the four checks in the order the Filter Gate is to apply them
GateOrder == <<"NoSocialLink", "UnparsableLink", "AlreadyProcessed", "AccountNotAllowed">>

\* whether a check applies to a resolved link, a ledger and an allow-list
Applies(check, link, ledger, allowed) ==
  LET account == extract_account_name(link)
      id == extract_tweet_id(link)
  IN CASE check = "NoSocialLink" -> link = NonDisponible
       [] check = "UnparsableLink" -> Falsy(account) \/ Falsy(id)
       [] check = "AlreadyProcessed" -> InList(id \o <<"|">> \o account, ledger)
       [] check = "AccountNotAllowed" -> ~InList(account, allowed)

\* the reference decision: the first check of GateOrder that applies, Accept
\* when none does
ReferenceDecision(link, ledger, allowed) ==
  LET hits == {i \in 1..Len(GateOrder) : Applies(GateOrder[i], link, ledger, allowed)}
  IN IF hits = {} THEN "Accept"
     ELSE GateOrder[CHOOSE i \in hits : \A j \in hits : i <= j]

\* C16: for every resolved link, ledger and allow-list, the outcome of
\* process_token is that of the reference decision, which applies
\* NoSocialLink, UnparsableLink, AlreadyProcessed, AccountNotAllowed in this
\* order, stops at the first that applies and accepts when none does.
C16_GateOrder ==
  [][(MessageCallStep /\ probe'.result.process_token) =>
       probe'.result.outcome =
         ReferenceDecision(probe'.result.twitter_link, tweet_blacklist, allowed_accounts)]_vars

\* a link of bob, whose key is in the ledger and who is not in the allow-list,
\* was rejected as AlreadyProcessed
C16_Witness ==
  /\ probe.fn = "on_websocket_message" /\ probe.done
  /\ probe.result.twitter_link = LinkBob
  /\ InList(TweetKey(<<"1">>, Bob), tweet_blacklist)
  /\ ~InList(Bob, allowed_accounts)
  /\ probe.result.outcome = "AlreadyProcessed"

\* C17: the step that finishes an accepted frame appends exactly the record
\* message_id|account to the ledger file and the same key to the in-memory
\* ledger; a step that rejects or drops a frame, or in which its handling
\* raises, changes neither and hands off no notification.
C17_LedgerEffect ==
  [][/\ \A t \in Threads : HandOffStep(t) =>
          LET key == TweetKey(cur[t].frame.tweet_id, cur[t].frame.account_name)
          IN /\ ledgerFile' = (IF ledgerFile = NoFile THEN <<>> ELSE ledgerFile) \o key \o <<"\n">>
             /\ tweet_blacklist' = Append(tweet_blacklist, key)
     /\ last' \in {"Rejected", "Dropped", "Error"}
          => UNCHANGED <<ledgerFile, tweet_blacklist, pending, dispatched>>]_vars

\* C18: opening a connection sends {"method":"subscribeNewToken"} on it, once;
\* a connection in Subscribed has had the request sent, and every frame a loop
\* handles arrives on a connection on which the request was sent before.
C18_SubscribeOnOpen ==
  /\ [](\A t \in Threads : ws[t] = "Subscribed" => sent[t] = <<"subscribeNewToken">>)
  /\ [][\A t \in Threads :
          /\ (ws[t] = "Connecting" /\ ws'[t] = "Subscribed")
               => (sent[t] = <<>> /\ sent'[t] = <<"subscribeNewToken">>)
          /\ OnMessage(t) => sent[t] = <<"subscribeNewToken">>]_vars

\* one loop is subscribed with the request sent, the connection of the other
\* was lost, and frames have been handled in this run
C18_Witness ==
  /\ ws[1] = "Subscribed" /\ sent[1] = <<"subscribeNewToken">>
  /\ ws[2] = "Disconnected" /\ sent[2] = <<>>
  /\ last = "Rejected"
  /\ Len(dispatched) = 1 /\ dispatched[1].run = run

\* the path segment that follows the first /status/ of link: up to the next
\* "/", "?" or "#", or to the end
SegmentAfterStatus(link) ==
  LET rest == SubSeq(link, Find(link, StatusMarker) + Len(StatusMarker), Len(link))
      stops == {i \in 1..Len(rest) : rest[i] \in {"/", "?", "#"}}
  IN IF stops = {} THEN rest
     ELSE SubSeq(rest, 1, (CHOOSE i \in stops : \A j \in stops : i <= j) - 1)

\* C19: on a link containing /status/ extract_tweet_id returns the single path
\* segment that follows it, on a link without /status/ it returns None, and
\* process_token rejects a frame whose link has no /status/ as unparsable.
C19_TweetIdSegment ==
  /\ (probe.fn = "link_parser" /\ probe.done) =>
        probe.result.tweet_id =
          IF Contains(probe.twitter_link, StatusMarker)
          THEN SegmentAfterStatus(probe.twitter_link)
          ELSE None
  /\ (probe.fn = "on_websocket_message" /\ probe.done /\ probe.result.process_token
        /\ probe.result.twitter_link \notin {None, NonDisponible}
        /\ ~Contains(probe.result.twitter_link, StatusMarker))
       => probe.result.outcome = "UnparsableLink"

\* key has a record in the ledger file: the line written for it, or a line that
\* load_tweet_blacklist reads as it
HasRecord(key, file) ==
  /\ file # NoFile
  /\ \E j \in 1..Len(FileLines(file)) :
       FileLines(file)[j] = key \o <<"\n">> \/ Strip(FileLines(file)[j]) = key

\* C20: every key of the in-memory ledger has a record in the ledger file, in
\* every reachable state; and within a run the in-memory ledger changes only by
\* a save that has appended the record of the new key to the file in the same
\* call.
C20_MemoryInFile ==
  /\ [](\A i \in 1..Len(tweet_blacklist) : HasRecord(tweet_blacklist[i], ledgerFile))
  /\ [][(run' = run /\ tweet_blacklist' # tweet_blacklist) =>
          LET key == tweet_blacklist'[Len(tweet_blacklist')]
          IN /\ tweet_blacklist' = Append(tweet_blacklist, key)
             /\ ledgerFile' = (IF ledgerFile = NoFile THEN <<>> ELSE ledgerFile) \o key \o <<"\n">>
             /\ last' = "Saved"]_vars

\* a key was saved, then the write for another accepted frame failed
C20_Witness ==
  /\ last = "SaveFailed"
  /\ Len(dispatched) = 2
  /\ dispatched[1].saved /\ ~dispatched[2].saved /\ dispatched[1].run = run
  /\ Len(tweet_blacklist) >= 1
  /\ tweet_blacklist[Len(tweet_blacklist)] = dispatched[1].key

====
